---- MODULE Spec2Model ----
(***************************************************************************)
(* A model of the short-strangle engine of openalgo_options:               *)
(*   - StrangleStrategy (src/option_strategy/strangle/strangle.py): the    *)
(*     main loop, the tick callback, the adjustment thread and the exit    *)
(*     procedure, interleaved statement group by statement group;          *)
(*   - StateManager (src/option_strategy/common_utils/state_manager.py);   *)
(*   - WebSocketManager (src/option_strategy/common_utils/                  *)
(*     websocket_manager.py), under its own specification SpecWS.          *)
(***************************************************************************)
EXTENDS Integers, Sequences, FiniteSets, TLC

VARIABLES
    up,           \* the strategy process is running
    restarts,     \* how many times the process has been started again
    clock,        \* wall clock relative to the trading window
    state,        \* StrangleStrategy.state (a dict: the keys present matter)
    store,        \* the state file of StateManager
    live_prices,  \* StrangleStrategy.live_prices
    queue,        \* StrangleStrategy.adjustment_completion_queue
    subs,         \* symbols subscribed at the market-data client
    connected,    \* the market-data client is connected
    fallback,     \* the REST polling thread of _start_fallback_poll runs
    broker,       \* net short quantity (in lots) per symbol at the broker
    next_id,      \* next trade id of TradeJournal.generate_trade_id
    pc,           \* position of every thread of the strategy process
    loc,          \* local variables of every thread
    ticks,        \* ticks delivered so far (bounds the model)
    max_adjustments, \* config['adjustment']['max_adjustments']
    ws,           \* WebSocketManager and its workers (SpecWS)
    sm,           \* a caller of StateManager and what it last saw (SpecStore)
    tg,           \* the trigger branch of monitor_and_adjust, with saves
                  \* that can fail (SpecTrigger)
    cb,           \* the tick callback _on_tick and the dicts it is handed
                  \* (SpecTick)
    fn,           \* the last call of the strike rounding or of _find_new_leg:
                  \* its inputs and what it returned (SpecFind)
    ca,           \* the price cache and the legs over a sequence of ticks and
                  \* adjustments (SpecCache)
    ru,           \* the last call of the two decision rules (SpecRule)
    sh            \* the strategy process over starts, entries and manual
                  \* shutdowns (SpecShutdown)

vars == <<up, restarts, clock, state, store, live_prices, queue, subs,
          connected, fallback, broker, next_id, pc, loc, ticks, max_adjustments, ws, sm, tg, cb, fn, ca, ru, sh>>

stratVars == <<up, restarts, clock, state, store, live_prices, queue, subs,
               connected, fallback, broker, next_id, pc, loc, ticks, max_adjustments>>

(***************************************************************************)
(* Bounds of the model.                                                    *)
(***************************************************************************)
MaxRestarts == 1
MaxAdjThreads == 2
MaxTrades == 2
MaxTicks == 3
MaxWorkers == 2
MaxCallbacks == 3
MaxSpot == 12
MaxInterval == 4
MaxPrice == 6
MaxStarts == 3

(***************************************************************************)
(* Configuration values read by the strategy.                              *)
(***************************************************************************)
strike_interval == 2
strike_diff == 2
radius == 1
threshold_num == 3
threshold_den == 5

EntrySpots == {10}
AdjSpots == {9, 10}
Spots == EntrySpots \cup AdjSpots
IndexTicks == {10}
MaxAdjustmentsChoices == {1, 2}
Prices == {40, 70, 100}

\* config websocket.websocket_max_retries
websocket_max_retries == 2

(***************************************************************************)
(* Dicts: functions whose domain is the set of keys present.               *)
(***************************************************************************)
EmptyDict == [k \in {} |-> 0]
Has(d, k) == k \in DOMAIN d
Put(d, k, v) == [x \in DOMAIN d \cup {k} |-> IF x = k THEN v ELSE d[x]]
Pop(d, k) == [x \in DOMAIN d \ {k} |-> d[x]]

\* state.get('active_trade_id'): 0 stands for None
TradeId(d) == IF Has(d, "active_trade_id") THEN d["active_trade_id"] ELSE 0
\* state.get('is_adjusting'), as a truth value
IsAdjusting(d) == Has(d, "is_adjusting") /\ d["is_adjusting"]
\* state.get('active_legs'), as a truth value
HasLegs(d) == Has(d, "active_legs") /\ DOMAIN d["active_legs"] # {}
\* the legs map, empty when the key is absent (for observation only)
LegsOf(d) == IF Has(d, "active_legs") THEN d["active_legs"] ELSE EmptyDict

Roles == <<"CALL_SHORT", "PUT_SHORT">>
RoleSet == {"CALL_SHORT", "PUT_SHORT"}
OtherRole(r) == IF r = "CALL_SHORT" THEN "PUT_SHORT" ELSE "CALL_SHORT"
OptType(r) == IF r = "CALL_SHORT" THEN "CE" ELSE "PE"

IndexSymbol == <<0, "INDEX">>
\* f"{index_symbol}{expiry}{strike}{ot}" and the regular expression reading it back
Symbol(k, ot) == <<k, ot>>
SymStrike(sym) == sym[1]
Leg(k, ot) == [symbol |-> Symbol(k, ot), strike |-> k]
NoLeg == [symbol |-> <<0, "NA">>, strike |-> 0]

FreshState == [active_trade_id |-> 0, active_legs |-> EmptyDict,
               adjustment_count |-> 0, is_adjusting |-> FALSE]

(***************************************************************************)
(* StateManager.                                                           *)
(***************************************************************************)
NoFile == [kind |-> "none", rec |-> EmptyDict]
load_state(file) == IF file.kind = "ok" THEN file.rec ELSE EmptyDict
save_state(rec) == [kind |-> "ok", rec |-> rec]

\* Other contents of the state file.  "partial": opened for writing and
\* truncated, the JSON text not (completely) written; "garbage": text that
\* is no JSON; "unreadable": open() fails; all three end in the except
\* clause of load_state.  "bytes": not decodable as text (UnicodeDecodeError,
\* which the except clause does not name); "nonobject": JSON that is no
\* object, which json.load returns as it is.
Partial == [kind |-> "partial", rec |-> EmptyDict]
DamagedFiles == {[kind |-> k, rec |-> EmptyDict] :
                    k \in {"garbage", "unreadable", "bytes", "nonobject"}}

\* how a call of load_state ends: it returns a dict, returns something
\* else, or raises
load_outcome(file) ==
    CASE file.kind = "bytes"     -> "raised"
      [] file.kind = "nonobject" -> "other"
      [] OTHER                   -> "dict"

\* the caller: where it is in save_state, the record it is saving, the file
\* as it was when the save began, how the last load ended and what it
\* returned, what the last save returned, and the last operation
SmInit == [pc |-> "idle", data |-> EmptyDict, prev |-> NoFile,
           outcome |-> "none", loaded |-> EmptyDict, saved |-> "none",
           last |-> "none"]

(***************************************************************************)
(* Threads of the strategy process.                                        *)
(***************************************************************************)
AdjNames == <<"adj1", "adj2", "adj3", "adj4">>
AdjThreads == {AdjNames[i] : i \in 1 .. MaxAdjThreads}
Threads == {"main", "tick"} \cup AdjThreads

NoLoc == [role |-> "", target |-> 0, old |-> NoLeg, rem |-> 0, new |-> 0,
          pend |-> <<>>, ret |-> "", ce |-> 0, pe |-> 0]

Idle(t) == IF t = "main" THEN "off" ELSE "idle"
AllIdle == [t \in Threads |-> Idle(t)]
AllNoLoc == [t \in Threads |-> NoLoc]

\* adjustment threads that have been started and have not returned or died
Running == {a \in AdjThreads : pc[a] # "idle"}

(***************************************************************************)
(* Strike arithmetic.                                                      *)
(***************************************************************************)
\* faulty variant: half away from zero
PyRound_half_up(n, d) ==
    LET q == n \div d
        r == n % d
    IN  IF 2 * r < d THEN q ELSE q + 1

\* Python's round() of n/d for integers n >= 0, d > 0: half to even
PyRound(n, d) ==
    LET q == n \div d
        r == n % d
    IN  IF 2 * r < d THEN q
        ELSE IF 2 * r > d THEN q + 1
        ELSE IF q % 2 = 0 THEN q ELSE q + 1

atm_strike(spot) == PyRound(spot, strike_interval) * strike_interval

MaxOffset == IF strike_diff > radius * strike_interval
             THEN strike_diff ELSE radius * strike_interval
Strikes == {atm_strike(s) + o : s \in Spots, o \in (0 - MaxOffset) .. MaxOffset}
OptionSymbols == {Symbol(k, ot) : k \in Strikes, ot \in {"CE", "PE"}}

(***************************************************************************)
(* _place_leg_order: the order request succeeds (ok) or not.  On success   *)
(* the journal line reads state['active_trade_id'] and a SELL then writes  *)
(* state['active_legs'][leg_type]; a missing key raises KeyError after     *)
(* the order has reached the broker.                                       *)
(***************************************************************************)
OrderRaises(d, action, ok) ==
    ok /\ (~Has(d, "active_trade_id")
           \/ (action = "SELL" /\ ~Has(d, "active_legs")))

OrderState(d, role, leg, action, ok) ==
    IF ok /\ action = "SELL" /\ ~OrderRaises(d, action, ok)
    THEN Put(d, "active_legs", Put(d["active_legs"], role, leg))
    ELSE d

OrderBroker(b, sym, action, ok) ==
    IF ok
    THEN [b EXCEPT ![sym] = @ + (IF action = "SELL" THEN 1 ELSE 0 - 1)]
    ELSE b

\* _square_off_leg pops the leg whatever the order's result
PopLeg(d, role) == Put(d, "active_legs", Pop(d["active_legs"], role))

(***************************************************************************)
(* Worker threads of the stream manager: start_stream creates one per      *)
(* call.  A worker's locals: position, retries, the symbols still to poll, *)
(* the failures seen since its stream was last established, and the        *)
(* symbols _resubscribe_all requested on its open connection.              *)
(***************************************************************************)
Workers == 1 .. MaxWorkers
NoWorker == [pc |-> "off", retries |-> 0, pend |-> <<>>, fails |-> 0,
             sent |-> {}]

(***************************************************************************)
(* Initial state: a first start with no state file, before the window.     *)
(***************************************************************************)
\* WebSocketManager.__init__ (the stream manager is a separate component; the
\* strategy above talks to the broker client directly)
WsInit ==
    [w             |-> [x \in Workers |-> NoWorker],
     started       |-> 0,
     main_loop_task |-> 0,
     websocket     |-> 0,
     is_connected  |-> FALSE,
     subscriptions |-> {},
     last_tick     |-> [via |-> "none"]]

InitStrategy ==
    /\ up = TRUE
    /\ restarts = 0
    /\ clock = "before"
    /\ state = load_state(NoFile)
    /\ store = NoFile
    /\ live_prices = EmptyDict
    /\ queue = <<>>
    /\ subs = {}
    /\ connected = FALSE
    /\ fallback = FALSE
    /\ broker = [s \in OptionSymbols |-> 0]
    /\ next_id = 1
    /\ pc = [AllIdle EXCEPT !["main"] = "start"]
    /\ loc = AllNoLoc
    /\ ticks = 0
    /\ max_adjustments \in MaxAdjustmentsChoices

\* monitor_and_adjust on an open trade with two legs: where the tick thread
\* is, the state in memory and the record in the file (the two fields the
\* branch writes), what the last save_state returned, the adjustment
\* threads before and after their 'is_adjusting = False', and the arguments
\* of the thread being started
TgInit == [pc |-> "idle",
           state |-> [is_adjusting |-> FALSE, adjustment_count |-> 0],
           file |-> [is_adjusting |-> FALSE, adjustment_count |-> 0],
           saved |-> "none", running |-> 0, saving |-> 0,
           args |-> [smaller_leg |-> "none", larger_price |-> 0]]

\* _on_tick with a trade of two legs open: the price cache, the flag
\* is_adjusting, the number of ticks handled, where the last one came from,
\* its symbol and price, and whether it went on to monitor_and_adjust
CbInit == [live_prices |-> EmptyDict, is_adjusting |-> FALSE, handled |-> 0,
           via |-> "none", symbol |-> NoLeg.symbol, ltp |-> 0,
           monitored |-> FALSE]

FnInit == [op |-> "none", spot |-> 0, interval |-> 0, atm |-> 0, exclude |-> 0,
           cands |-> <<>>, q |-> EmptyDict, target |-> 0, result |-> 0]

\* after an entry at the first entry spot: the two legs, the empty price
\* cache, the symbols whose cached price was recorded since the leg at
\* that symbol was opened, the count, the flag with the arguments of the
\* pending adjustment, and how the last evaluation of the condition read
\* the cache
CaInit ==
    LET spot == CHOOSE x \in EntrySpots : TRUE
    IN  [legs |-> [r \in RoleSet |->
                     Leg(IF r = "CALL_SHORT" THEN atm_strike(spot) + strike_diff
                                             ELSE atm_strike(spot) - strike_diff,
                         OptType(r))],
         live_prices |-> EmptyDict, recent |-> {}, adjustment_count |-> 0,
         is_adjusting |-> FALSE, losing |-> "none", evaluated |-> "none",
         open |-> TRUE]

RuInit == [op |-> "none", ce |-> 0, pe |-> 0, num |-> 0, den |-> 1,
           legacy |-> [leg |-> "none", target |-> 0],
           current |-> [leg |-> "none", target |-> 0]]

\* before the first start: no process, no state file, no position; stop
\* and before record how the last process ended and its state in memory
ShInit ==
    [up |-> FALSE, pc |-> "off", state |-> EmptyDict, store |-> NoFile,
     broker |-> [sym \in OptionSymbols |-> 0], subs |-> {},
     connected |-> FALSE, next_id |-> 1, starts |-> 0,
     stop |-> "none", before |-> EmptyDict]

Init ==
    /\ InitStrategy
    /\ ws = WsInit /\ sm = SmInit /\ tg = TgInit /\ cb = CbInit /\ fn = FnInit
    /\ ca = CaInit /\ ru = RuInit /\ sh = ShInit

(***************************************************************************)
(* The process and the clock.                                              *)
(***************************************************************************)
Volatile ==
    /\ pc' = AllIdle
    /\ loc' = AllNoLoc
    /\ live_prices' = EmptyDict
    /\ queue' = <<>>
    /\ subs' = {}
    /\ connected' = FALSE
    /\ fallback' = FALSE

\* the process is killed at an arbitrary point
Crash ==
    /\ up
    /\ restarts < MaxRestarts
    /\ up' = FALSE
    /\ state' = EmptyDict
    /\ Volatile
    /\ UNCHANGED <<restarts, clock, store, broker, next_id, ticks, max_adjustments, ws, sm, tg, cb, fn, ca, ru, sh>>

\* run() has returned or raised: the process ends, its daemon threads with it
ProcessExit ==
    /\ up
    /\ pc["main"] \in {"done", "dead"}
    /\ up' = FALSE
    /\ state' = EmptyDict
    /\ Volatile
    /\ UNCHANGED <<restarts, clock, store, broker, next_id, ticks, max_adjustments, ws, sm, tg, cb, fn, ca, ru, sh>>

\* StrangleStrategy.__init__: the state is loaded from the state file
Restart ==
    /\ ~up
    /\ restarts < MaxRestarts
    /\ up' = TRUE
    /\ restarts' = restarts + 1
    /\ state' = load_state(store)
    /\ pc' = [AllIdle EXCEPT !["main"] = "start"]
    /\ UNCHANGED <<clock, store, live_prices, queue, subs, connected, fallback,
                   broker, next_id, loc, ticks, max_adjustments, ws, sm, tg, cb, fn, ca, ru, sh>>

ClockAdvance ==
    /\ clock # "after"
    /\ clock' = IF clock = "before" THEN "in" ELSE "after"
    /\ UNCHANGED <<up, restarts, state, store, live_prices, queue, subs,
                   connected, fallback, broker, next_id, pc, loc, ticks, max_adjustments, ws, sm, tg, cb, fn, ca, ru, sh>>

Goto(t, label) == pc' = [pc EXCEPT ![t] = label]

(***************************************************************************)
(* run(): start-up and the main loop.                                      *)
(***************************************************************************)
\* faulty variant: the flag found at start-up is kept
startup_state_keep(d) == d

\* "If strategy was stopped mid-adjustment, reset the flag"
startup_state(d) == Put(d, "is_adjusting", FALSE)

RunStart ==
    /\ up /\ pc["main"] = "start"
    /\ IF TradeId(state) = 0
       THEN /\ state' = FreshState
            /\ Goto("main", "loop_queue")
            /\ UNCHANGED store
       ELSE /\ IF IsAdjusting(state)
               THEN /\ state' = startup_state(state)
                    /\ store' = save_state(state')
               ELSE UNCHANGED <<state, store>>
            /\ Goto("main", IF HasLegs(state) THEN "start_monitor" ELSE "loop_queue")
    /\ UNCHANGED <<up, restarts, clock, live_prices, queue, subs, connected,
                   fallback, broker, next_id, loc, ticks, max_adjustments, ws, sm, tg, cb, fn, ca, ru, sh>>

LegSymbols(d) == {LegsOf(d)[r].symbol : r \in DOMAIN LegsOf(d)}

\* _start_monitoring: connect and subscribe, or start the polling thread
StartMonitoring ==
    /\ up /\ pc["main"] = "start_monitor"
    /\ \E ok \in BOOLEAN :
         IF ok /\ Has(state, "active_legs")
         THEN /\ connected' = TRUE
              /\ subs' = subs \cup LegSymbols(state) \cup {IndexSymbol}
              /\ UNCHANGED fallback
         ELSE /\ fallback' = TRUE
              /\ UNCHANGED <<connected, subs>>
    /\ Goto("main", "loop_queue")
    /\ UNCHANGED <<up, restarts, clock, state, store, live_prices, queue,
                   broker, next_id, loc, ticks, max_adjustments, ws, sm, tg, cb, fn, ca, ru, sh>>

\* top of the loop: one pending subscription change is applied
LoopQueue ==
    /\ up /\ pc["main"] = "loop_queue"
    /\ IF queue # <<>>
       THEN /\ subs' = (subs \ {Head(queue).old_symbol}) \cup {Head(queue).new_symbol}
            /\ queue' = Tail(queue)
       ELSE UNCHANGED <<subs, queue>>
    /\ Goto("main", "loop_time")
    /\ UNCHANGED <<up, restarts, clock, state, store, live_prices, connected,
                   fallback, broker, next_id, loc, ticks, max_adjustments, ws, sm, tg, cb, fn, ca, ru, sh>>

\* faulty variant: entry is attempted whatever the state holds
needs_entry_always(d) == TRUE

\* if not self.state.get('active_trade_id'): execute_entry()
needs_entry(d) == TradeId(d) = 0

LoopTime ==
    /\ up /\ pc["main"] = "loop_time"
    /\ \/ /\ clock = "before"
          /\ Goto("main", "wait_start")
          /\ UNCHANGED loc
       \/ /\ clock = "in"
          /\ Goto("main", IF needs_entry(state) THEN "entry_lookup" ELSE "loop_queue")
          /\ UNCHANGED loc
       \/ /\ clock = "after"
          /\ Goto("main", "exit_shutdown")
          /\ loc' = [loc EXCEPT !["main"].ret = "done"]
    /\ UNCHANGED <<up, restarts, clock, state, store, live_prices, queue, subs,
                   connected, fallback, broker, next_id, ticks, max_adjustments, ws, sm, tg, cb, fn, ca, ru, sh>>

\* time.sleep(wait_seconds) ends when the window has opened
WakeStart ==
    /\ up /\ pc["main"] = "wait_start"
    /\ clock # "before"
    /\ Goto("main", "loop_queue")
    /\ UNCHANGED <<up, restarts, clock, state, store, live_prices, queue, subs,
                   connected, fallback, broker, next_id, loc, ticks, max_adjustments, ws, sm, tg, cb, fn, ca, ru, sh>>

(***************************************************************************)
(* execute_entry.                                                          *)
(***************************************************************************)
\* the state after the two lookups: a failed lookup returns before any write
entry_state_unconditional(st, expiry_ok, quote_ok, id) ==
    Put(Put(st, "active_trade_id", id), "adjustment_count", 0)

entry_state(st, expiry_ok, quote_ok, id) ==
    IF expiry_ok /\ quote_ok
    THEN Put(Put(st, "active_trade_id", id), "adjustment_count", 0)
    ELSE st

EntryLookup ==
    /\ up /\ pc["main"] = "entry_lookup"
    /\ next_id <= MaxTrades
    /\ \E expiry_ok \in BOOLEAN, quote_ok \in BOOLEAN, spot \in EntrySpots :
         /\ state' = entry_state(state, expiry_ok, quote_ok, next_id)
         /\ IF expiry_ok /\ quote_ok
            THEN
              /\ next_id' = next_id + 1
              /\ loc' = [loc EXCEPT !["main"].ce = atm_strike(spot) + strike_diff,
                                    !["main"].pe = atm_strike(spot) - strike_diff]
              /\ Goto("main", "entry_ce")
            ELSE
              /\ Goto("main", "entry_after")
              /\ UNCHANGED <<next_id, loc>>
    /\ UNCHANGED <<up, restarts, clock, store, live_prices, queue, subs,
                   connected, fallback, broker, ticks, max_adjustments, ws, sm, tg, cb, fn, ca, ru, sh>>

EntryOrder(label, role, next) ==
    /\ up /\ pc["main"] = label
    /\ \E ok \in BOOLEAN :
         LET k == IF role = "CALL_SHORT" THEN loc["main"].ce ELSE loc["main"].pe
             leg == Leg(k, OptType(role))
         IN  /\ broker' = OrderBroker(broker, leg.symbol, "SELL", ok)
             /\ state' = OrderState(state, role, leg, "SELL", ok)
             /\ Goto("main", IF OrderRaises(state, "SELL", ok)
                             THEN "entry_after" ELSE next)
    /\ UNCHANGED <<up, restarts, clock, store, live_prices, queue, subs,
                   connected, fallback, next_id, loc, ticks, max_adjustments, ws, sm, tg, cb, fn, ca, ru, sh>>

EntryCall == EntryOrder("entry_ce", "CALL_SHORT", "entry_pe")
EntryPut == EntryOrder("entry_pe", "PUT_SHORT", "entry_save")

EntrySave ==
    /\ up /\ pc["main"] = "entry_save"
    /\ store' = save_state(state)
    /\ Goto("main", "entry_after")
    /\ UNCHANGED <<up, restarts, clock, state, live_prices, queue, subs,
                   connected, fallback, broker, next_id, loc, ticks, max_adjustments, ws, sm, tg, cb, fn, ca, ru, sh>>

\* back in run(): monitoring starts if the entry left legs
EntryAfter ==
    /\ up /\ pc["main"] = "entry_after"
    /\ Goto("main", IF HasLegs(state) THEN "start_monitor" ELSE "loop_queue")
    /\ loc' = [loc EXCEPT !["main"] = NoLoc]
    /\ UNCHANGED <<up, restarts, clock, state, store, live_prices, queue, subs,
                   connected, fallback, broker, next_id, ticks, max_adjustments, ws, sm, tg, cb, fn, ca, ru, sh>>

(***************************************************************************)
(* execute_exit, run by the main loop (end of the window), by the tick     *)
(* callback (max adjustments) or by an adjustment thread (forced close).   *)
(***************************************************************************)
\* where an exception raised in thread t ends up: run() dies, _on_tick
\* catches and logs, an adjustment thread dies
Raise(t) ==
    /\ Goto(t, IF t = "main" THEN "dead" ELSE "idle")
    /\ loc' = [loc EXCEPT ![t] = NoLoc]

\* shutdown(): unsubscribe the legs and the index, disconnect
ExitShutdown(t) ==
    /\ up /\ pc[t] = "exit_shutdown"
    /\ subs' = subs \ (LegSymbols(state) \cup {IndexSymbol})
    /\ connected' = FALSE
    /\ Goto(t, "exit_list")
    /\ UNCHANGED <<up, restarts, clock, state, store, live_prices, queue,
                   fallback, broker, next_id, loc, ticks, max_adjustments, ws, sm, tg, cb, fn, ca, ru, sh>>

\* list(self.state['active_legs'].items())
LegItems(legs) ==
    SelectSeq([i \in 1 .. 2 |-> [role |-> Roles[i],
                                 leg |-> IF Has(legs, Roles[i])
                                         THEN legs[Roles[i]] ELSE NoLeg]],
              LAMBDA it : Has(legs, it.role))

ExitList(t) ==
    /\ up /\ pc[t] = "exit_list"
    /\ IF ~Has(state, "active_legs")
       THEN Raise(t)
       ELSE /\ loc' = [loc EXCEPT ![t].pend = LegItems(state["active_legs"])]
            /\ Goto(t, IF LegItems(state["active_legs"]) = <<>>
                       THEN "exit_clear" ELSE "exit_leg")
    /\ UNCHANGED <<up, restarts, clock, state, store, live_prices, queue, subs,
                   connected, fallback, broker, next_id, ticks, max_adjustments, ws, sm, tg, cb, fn, ca, ru, sh>>

\* _square_off_leg of the next listed leg: a BUY order, then the pop
ExitLeg(t) ==
    /\ up /\ pc[t] = "exit_leg"
    /\ \E ok \in BOOLEAN :
         LET it == Head(loc[t].pend)
         IN  /\ broker' = OrderBroker(broker, it.leg.symbol, "BUY", ok)
             /\ IF OrderRaises(state, "BUY", ok) \/ ~Has(state, "active_legs")
                THEN /\ Raise(t)
                     /\ UNCHANGED state
                ELSE /\ state' = PopLeg(state, it.role)
                     /\ loc' = [loc EXCEPT ![t].pend = Tail(@)]
                     /\ Goto(t, IF Tail(loc[t].pend) = <<>>
                                THEN "exit_clear" ELSE "exit_leg")
    /\ UNCHANGED <<up, restarts, clock, store, live_prices, queue, subs,
                   connected, fallback, next_id, ticks, max_adjustments, ws, sm, tg, cb, fn, ca, ru, sh>>

\* self.state = {}
ExitClear(t) ==
    /\ up /\ pc[t] = "exit_clear"
    /\ state' = EmptyDict
    /\ Goto(t, "exit_save")
    /\ UNCHANGED <<up, restarts, clock, store, live_prices, queue, subs,
                   connected, fallback, broker, next_id, loc, ticks, max_adjustments, ws, sm, tg, cb, fn, ca, ru, sh>>

ExitSave(t) ==
    /\ up /\ pc[t] = "exit_save"
    /\ store' = save_state(state)
    /\ Goto(t, loc[t].ret)
    /\ loc' = [loc EXCEPT ![t].ret = ""]
    /\ UNCHANGED <<up, restarts, clock, state, live_prices, queue, subs,
                   connected, fallback, broker, next_id, ticks, max_adjustments, ws, sm, tg, cb, fn, ca, ru, sh>>

(***************************************************************************)
(* _on_tick and monitor_and_adjust, on the client's receive thread.        *)
(***************************************************************************)
TickPrices(sym) == IF sym = IndexSymbol THEN IndexTicks ELSE Prices

TickRecv ==
    /\ up /\ connected /\ pc["tick"] = "idle"
    /\ ticks < MaxTicks
    /\ ticks' = ticks + 1
    /\ \E sym \in subs :
         \E ltp \in TickPrices(sym) :
            live_prices' = Put(live_prices, sym, ltp)
    /\ Goto("tick", IF IsAdjusting(state) THEN "idle" ELSE "monitor")
    /\ UNCHANGED <<up, restarts, clock, state, store, queue, subs, connected,
                   fallback, broker, next_id, loc, max_adjustments, ws, sm, tg, cb, fn, ca, ru, sh>>

\* faulty variant: the threshold ratio is dropped
condition_met_no_ratio(smaller, larger) == smaller < larger

\* smaller_price < larger_price * threshold
condition_met(smaller, larger) ==
    smaller * threshold_den < larger * threshold_num

smaller_leg(ce, pe) == IF ce < pe THEN "CALL_SHORT" ELSE "PUT_SHORT"
smaller_price(ce, pe) == IF ce < pe THEN ce ELSE pe
larger_price(ce, pe) == IF ce < pe THEN pe ELSE ce

\* faulty variant: the trading window is not looked at
Qualifies_any_time ==
    /\ ~IsAdjusting(state)
    /\ TradeId(state) # 0
    /\ Has(state, "active_legs")
    /\ DOMAIN state["active_legs"] = RoleSet
    /\ Has(live_prices, state["active_legs"]["CALL_SHORT"].symbol)
    /\ Has(live_prices, state["active_legs"]["PUT_SHORT"].symbol)

\* the guards of monitor_and_adjust that return without raising
Qualifies ==
    /\ clock = "in"
    /\ ~IsAdjusting(state)
    /\ TradeId(state) # 0
    /\ Has(state, "active_legs")
    /\ DOMAIN state["active_legs"] = RoleSet
    /\ Has(live_prices, state["active_legs"]["CALL_SHORT"].symbol)
    /\ Has(live_prices, state["active_legs"]["PUT_SHORT"].symbol)

ce_price == live_prices[state["active_legs"]["CALL_SHORT"].symbol]
pe_price == live_prices[state["active_legs"]["PUT_SHORT"].symbol]

\* faulty variant: one adjustment more than the maximum
may_adjust_inclusive(count, max) == count <= max

\* self.state['adjustment_count'] < max_adjustments
may_adjust(count, max) == count < max

FreeSlots == {a \in AdjThreads : pc[a] = "idle"}
LowestFree ==
    AdjNames[CHOOSE i \in 1 .. MaxAdjThreads :
                /\ AdjNames[i] \in FreeSlots
                /\ \A j \in 1 .. (i - 1) : AdjNames[j] \notin FreeSlots]

Monitor ==
    /\ up /\ pc["tick"] = "monitor"
    /\ IF Qualifies /\ condition_met(smaller_price(ce_price, pe_price),
                                     larger_price(ce_price, pe_price))
       THEN IF ~Has(state, "adjustment_count")
            THEN /\ Raise("tick")
                 /\ UNCHANGED <<state, store>>
            ELSE IF may_adjust(state["adjustment_count"], max_adjustments)
            THEN /\ FreeSlots # {}
                 /\ state' = Put(Put(state, "is_adjusting", TRUE),
                                 "adjustment_count", state["adjustment_count"] + 1)
                 /\ store' = save_state(state')
                 /\ pc' = [pc EXCEPT !["tick"] = "idle", ![LowestFree] = "adj_close"]
                 /\ loc' = [loc EXCEPT ![LowestFree].role = smaller_leg(ce_price, pe_price),
                                       ![LowestFree].target = larger_price(ce_price, pe_price)]
            ELSE /\ Goto("tick", "exit_shutdown")
                 /\ loc' = [loc EXCEPT !["tick"].ret = "idle"]
                 /\ UNCHANGED <<state, store>>
       ELSE /\ Goto("tick", "idle")
            /\ UNCHANGED <<state, store, loc>>
    /\ UNCHANGED <<up, restarts, clock, live_prices, queue, subs, connected,
                   fallback, broker, next_id, ticks, max_adjustments, ws, sm, tg, cb, fn, ca, ru, sh>>

(***************************************************************************)
(* _perform_adjustment and _find_new_leg, on a thread of their own.        *)
(***************************************************************************)
NoQuote == 0 - 1
Abs(x) == IF x < 0 THEN 0 - x ELSE x

\* faulty variant: the strike just closed stays in the list
Candidates_with_closed(atm, exclude) ==
    [i \in 1 .. (2 * radius + 1) |-> atm + (i - radius - 1) * strike_interval]

\* strikes_to_check: atm + i * interval for i in range(-radius, radius + 1),
\* without the strike just closed
Candidates(atm, exclude) ==
    SelectSeq([i \in 1 .. (2 * radius + 1) |->
                   atm + (i - radius - 1) * strike_interval],
              LAMBDA k : k # exclude)

SeqToSet(sq) == {sq[i] : i \in 1 .. Len(sq)}

\* faulty variant: the last of the closest
best_leg_last(cands, q, target) ==
    LET succ == SelectSeq(cands, LAMBDA k : q[k] # NoQuote)
        d(i) == Abs(q[succ[i]] - target)
        idx == CHOOSE i \in 1 .. Len(succ) :
                  /\ \A j \in 1 .. Len(succ) : d(i) <= d(j)
                  /\ \A j \in (i + 1) .. Len(succ) : d(j) > d(i)
    IN  IF succ = <<>> THEN 0 ELSE succ[idx]

\* min(successful_quotes, key=lambda q: abs(q['ltp'] - target_premium)):
\* the first of the closest; 0 (None) when no quote succeeded
best_leg(cands, q, target) ==
    LET succ == SelectSeq(cands, LAMBDA k : q[k] # NoQuote)
        d(i) == Abs(q[succ[i]] - target)
        idx == CHOOSE i \in 1 .. Len(succ) :
                  /\ \A j \in 1 .. Len(succ) : d(i) <= d(j)
                  /\ \A j \in 1 .. (i - 1) : d(j) > d(i)
    IN  IF succ = <<>> THEN 0 ELSE succ[idx]

\* faulty variant: no replacement is taken to be inverted
Inverted_never(role, rem, new) == FALSE

\* the inversion test of _perform_adjustment
Inverted(role, rem, new) ==
    \/ (role = "PUT_SHORT" /\ rem < new)
    \/ (role = "CALL_SHORT" /\ new < rem)

\* losing_leg_info = state['active_legs'][losing_leg_type].copy(), then
\* _square_off_leg
AdjClose(a) ==
    /\ up /\ pc[a] = "adj_close"
    /\ IF ~Has(state, "active_legs") \/ ~Has(LegsOf(state), loc[a].role)
       THEN /\ Raise(a)
            /\ UNCHANGED <<state, broker>>
       ELSE \E ok \in BOOLEAN :
              LET leg == state["active_legs"][loc[a].role]
              IN  /\ broker' = OrderBroker(broker, leg.symbol, "BUY", ok)
                  /\ IF OrderRaises(state, "BUY", ok)
                     THEN /\ Raise(a)
                          /\ UNCHANGED state
                     ELSE /\ state' = PopLeg(state, loc[a].role)
                          /\ loc' = [loc EXCEPT ![a].old = leg]
                          /\ Goto(a, "adj_check")
    /\ UNCHANGED <<up, restarts, clock, store, live_prices, queue, subs,
                   connected, fallback, next_id, ticks, max_adjustments, ws, sm, tg, cb, fn, ca, ru, sh>>

\* the remaining leg must still be there
AdjCheck(a) ==
    /\ up /\ pc[a] = "adj_check"
    /\ IF ~Has(state, "active_legs")
       THEN Raise(a)
       ELSE IF ~Has(state["active_legs"], OtherRole(loc[a].role))
       THEN /\ Goto(a, "exit_shutdown")
            /\ loc' = [loc EXCEPT ![a].ret = "adj_reset"]
       ELSE /\ Goto(a, "adj_find")
            /\ loc' = [loc EXCEPT ![a].rem =
                          state["active_legs"][OtherRole(loc[a].role)].strike]
    /\ UNCHANGED <<up, restarts, clock, state, store, live_prices, queue, subs,
                   connected, fallback, broker, next_id, ticks, max_adjustments, ws, sm, tg, cb, fn, ca, ru, sh>>

\* _find_new_leg, then the two decisions taken on its result
AdjFind(a) ==
    /\ up /\ pc[a] = "adj_find"
    /\ \E quote_ok \in BOOLEAN, spot \in AdjSpots :
         IF ~quote_ok \/ ~HasLegs(state)
         THEN Raise(a)
         ELSE LET cands == Candidates(atm_strike(spot), loc[a].old.strike)
              IN  \E q \in [SeqToSet(cands) -> Prices \cup {NoQuote}] :
                    LET new == best_leg(cands, q, loc[a].target)
                    IN  IF new = 0
                        THEN /\ Goto(a, "exit_shutdown")
                             /\ loc' = [loc EXCEPT ![a].ret = "adj_reset"]
                        ELSE IF Inverted(loc[a].role, loc[a].rem, new)
                        THEN /\ Goto(a, "exit_shutdown")
                             /\ loc' = [loc EXCEPT ![a].ret = "idle"]
                        ELSE /\ Goto(a, "adj_sell")
                             /\ loc' = [loc EXCEPT ![a].new = new]
    /\ UNCHANGED <<up, restarts, clock, state, store, live_prices, queue, subs,
                   connected, fallback, broker, next_id, ticks, max_adjustments, ws, sm, tg, cb, fn, ca, ru, sh>>

\* the SELL order of the replacement leg, then the hand-off to the main loop
AdjSell(a) ==
    /\ up /\ pc[a] = "adj_sell"
    /\ \E ok \in BOOLEAN :
         LET leg == Leg(loc[a].new, OptType(loc[a].role))
         IN  /\ broker' = OrderBroker(broker, leg.symbol, "SELL", ok)
             /\ state' = OrderState(state, loc[a].role, leg, "SELL", ok)
             /\ IF OrderRaises(state, "SELL", ok)
                THEN /\ Raise(a)
                     /\ UNCHANGED queue
                ELSE /\ queue' = Append(queue, [old_symbol |-> loc[a].old.symbol,
                                                new_symbol |-> leg.symbol])
                     /\ Goto(a, "adj_reset")
                     /\ UNCHANGED loc
    /\ UNCHANGED <<up, restarts, clock, store, live_prices, subs, connected,
                   fallback, next_id, ticks, max_adjustments, ws, sm, tg, cb, fn, ca, ru, sh>>

\* self.state['is_adjusting'] = False
AdjReset(a) ==
    /\ up /\ pc[a] = "adj_reset"
    /\ state' = Put(state, "is_adjusting", FALSE)
    /\ Goto(a, "adj_save")
    /\ UNCHANGED <<up, restarts, clock, store, live_prices, queue, subs,
                   connected, fallback, broker, next_id, loc, ticks, max_adjustments, ws, sm, tg, cb, fn, ca, ru, sh>>

\* the last save_state; the thread ends
AdjSave(a) ==
    /\ up /\ pc[a] = "adj_save"
    /\ store' = save_state(state)
    /\ Goto(a, "idle")
    /\ loc' = [loc EXCEPT ![a] = NoLoc]
    /\ UNCHANGED <<up, restarts, clock, state, live_prices, queue, subs,
                   connected, fallback, broker, next_id, ticks, max_adjustments, ws, sm, tg, cb, fn, ca, ru, sh>>

(***************************************************************************)
(* The strategy process.                                                   *)
(***************************************************************************)
MainStep ==
    \/ RunStart \/ StartMonitoring \/ LoopQueue \/ LoopTime \/ WakeStart
    \/ EntryLookup \/ EntryCall \/ EntryPut \/ EntrySave \/ EntryAfter

ExitStep(t) ==
    \/ ExitShutdown(t) \/ ExitList(t) \/ ExitLeg(t) \/ ExitClear(t) \/ ExitSave(t)

AdjStep(a) ==
    \/ AdjClose(a) \/ AdjCheck(a) \/ AdjFind(a) \/ AdjSell(a)
    \/ AdjReset(a) \/ AdjSave(a)

Next ==
    \/ MainStep
    \/ TickRecv
    \/ Monitor
    \/ \E t \in Threads : ExitStep(t)
    \/ \E a \in AdjThreads : AdjStep(a)
    \/ ClockAdvance
    \/ Crash
    \/ ProcessExit
    \/ Restart

Spec == Init /\ [][Next]_vars

(***************************************************************************)
(* WebSocketManager: the worker started by start_stream runs _run, which   *)
(* ends in _fallback_poll; subscribe and unsubscribe are called from       *)
(* other threads.                                                          *)
(***************************************************************************)
\* topics are "SYMBOL.EXCHANGE"; topic.split('.') yields the two parts
Topics == {<<"NIFTY", "NSE_INDEX">>, <<"BANKNIFTY", "NSE_INDEX">>}
Ltps == {100}

split(topic) == [symbol |-> topic[1], exchange |-> topic[2]]

\* what the callback is handed: data['data'] of a stream message, or the
\* dict _fallback_poll builds from a quote
StreamTick(topic, ltp) ==
    [via |-> "stream", symbol |-> split(topic).symbol,
     exchange |-> split(topic).exchange, ltp |-> ltp]
PollTick(topic, ltp) ==
    [via |-> "poll", symbol |-> split(topic).symbol,
     exchange |-> split(topic).exchange, ltp |-> ltp]

FallbackLabels == {"fallback", "poll"}

\* a step of worker x: its locals become l, the shared fields those of g
WsGoto(x, l, g) ==
    /\ ws' = [g EXCEPT !.w = [ws.w EXCEPT ![x] = l]]
    /\ UNCHANGED <<stratVars, sm, tg, cb, fn, ca, ru, sh>>

\* start_stream(initial_symbols, on_tick_callback): the callback is stored,
\* the symbols are added, a new thread is created and stored in
\* main_loop_task
StartStream ==
    /\ ws.started < MaxWorkers
    /\ \E initial \in SUBSET Topics :
         LET x == ws.started + 1
         IN  WsGoto(x, [ws.w[x] EXCEPT !.pc = "run"],
                    [ws EXCEPT !.started = x,
                               !.main_loop_task = x,
                               !.subscriptions = ws.subscriptions \cup initial])

\* _run: retries = config websocket_max_retries
RunBegin(x) ==
    /\ ws.w[x].pc = "run"
    /\ WsGoto(x, [ws.w[x] EXCEPT !.pc = "loop",
                                 !.retries = websocket_max_retries], ws)

\* while retries > 0: ... ; after the loop: _fallback_poll()
LoopTest(x) ==
    /\ ws.w[x].pc = "loop"
    /\ WsGoto(x, [ws.w[x] EXCEPT !.pc = IF ws.w[x].retries > 0
                                        THEN "connect" ELSE "fallback"], ws)

\* both except clauses: is_connected = False, retries -= 1, sleep, loop again
after_failure(r) == r - 1

FailedLocal(l) ==
    [l EXCEPT !.pc = "loop", !.retries = after_failure(l.retries),
              !.fails = l.fails + 1, !.sent = {}]
FailedShared(g) == [g EXCEPT !.is_connected = FALSE]

\* websockets.connect(...): the connection opens (self.websocket = ws,
\* is_connected = True) or the attempt fails
Connect(x) ==
    /\ ws.w[x].pc = "connect"
    /\ \E ok \in BOOLEAN :
         IF ok
         THEN WsGoto(x, [ws.w[x] EXCEPT !.pc = "auth"],
                     [ws EXCEPT !.websocket = x, !.is_connected = TRUE])
         ELSE WsGoto(x, FailedLocal(ws.w[x]), FailedShared(ws))

\* send authenticate, recv the answer: accepted, rejected (break), or the
\* connection is lost meanwhile
Authenticate(x) ==
    /\ ws.w[x].pc = "auth"
    /\ \E answer \in {"success", "rejected", "lost"} :
         CASE answer = "success" ->
                  WsGoto(x, [ws.w[x] EXCEPT !.pc = "resubscribe"], ws)
           [] answer = "rejected" ->
                  WsGoto(x, [ws.w[x] EXCEPT !.pc = "fallback"], ws)
           [] answer = "lost" ->
                  WsGoto(x, FailedLocal(ws.w[x]), FailedShared(ws))

\* _resubscribe_all: symbols_to_subscribe = list(self.subscriptions); a
\* subscribe request for each, if self.is_connected and self.websocket
resubscribe_requests(g) ==
    IF g.is_connected /\ g.websocket # 0 THEN g.subscriptions ELSE {}

\* _resubscribe_all, then "Reset retries on successful connection"
Resubscribe(x) ==
    /\ ws.w[x].pc = "resubscribe"
    /\ \E ok \in BOOLEAN :
         IF ok
         THEN WsGoto(x, [ws.w[x] EXCEPT !.pc = "recv",
                                        !.retries = websocket_max_retries,
                                        !.fails = 0,
                                        !.sent = resubscribe_requests(ws)], ws)
         ELSE WsGoto(x, FailedLocal(ws.w[x]), FailedShared(ws))

\* async for message in ws: a market_data message goes to the callback
RecvTick(x) ==
    /\ ws.w[x].pc = "recv"
    /\ \E topic \in Topics, ltp \in Ltps :
         WsGoto(x, ws.w[x], [ws EXCEPT !.last_tick = StreamTick(topic, ltp)])

\* the stream ends: with an error (ConnectionClosedError), with a message
\* the loop body cannot handle (except Exception), or with a normal close,
\* on which the async for ends without raising and no except clause runs
RecvEnd(x) ==
    /\ ws.w[x].pc = "recv"
    /\ \E how \in {"error", "bad_message", "closed"} :
         IF how = "closed"
         THEN WsGoto(x, [ws.w[x] EXCEPT !.pc = "loop",
                                        !.fails = ws.w[x].fails + 1,
                                        !.sent = {}], ws)
         ELSE WsGoto(x, FailedLocal(ws.w[x]), FailedShared(ws))

SetToSeq(S) ==
    CHOOSE q \in [1..Cardinality(S) -> S] : \A e \in S : \E i \in DOMAIN q : q[i] = e

\* faulty variant: the connection loop is tried again after a round
after_poll_round_reconnect == "loop"

\* what the worker does when a polling round is over
after_poll_round == "fallback"

\* _fallback_poll: symbols_to_poll = list(self.subscriptions)
FallbackSnapshot(x) ==
    /\ ws.w[x].pc = "fallback"
    /\ WsGoto(x, [ws.w[x] EXCEPT !.pc = "poll",
                                 !.pend = SetToSeq(ws.subscriptions)], ws)

\* one quote request of the for loop; a successful quote becomes a tick
PollQuote(x) ==
    /\ ws.w[x].pc = "poll" /\ ws.w[x].pend # <<>>
    /\ \E ok \in BOOLEAN, ltp \in Ltps :
         WsGoto(x, [ws.w[x] EXCEPT !.pend = Tail(ws.w[x].pend)],
                IF ok
                THEN [ws EXCEPT !.last_tick = PollTick(Head(ws.w[x].pend), ltp)]
                ELSE ws)

\* end of the for loop: sleep(interval), next round of while True
PollSleep(x) ==
    /\ ws.w[x].pc = "poll" /\ ws.w[x].pend = <<>>
    /\ WsGoto(x, [ws.w[x] EXCEPT !.pc = after_poll_round], ws)

\* subscribe(symbols) / unsubscribe(symbols), from the caller's thread
Subscribe ==
    /\ ws.started > 0
    /\ \E symbols \in SUBSET Topics :
         /\ symbols \ ws.subscriptions # {}
         /\ ws' = [ws EXCEPT !.subscriptions = ws.subscriptions \cup symbols]
         /\ UNCHANGED <<stratVars, sm, tg, cb, fn, ca, ru, sh>>

Unsubscribe ==
    /\ ws.started > 0
    /\ \E symbols \in SUBSET Topics :
         /\ symbols \cap ws.subscriptions # {}
         /\ ws' = [ws EXCEPT !.subscriptions = ws.subscriptions \ symbols]
         /\ UNCHANGED <<stratVars, sm, tg, cb, fn, ca, ru, sh>>

WorkerStep(x) ==
    \/ RunBegin(x) \/ LoopTest(x) \/ Connect(x) \/ Authenticate(x)
    \/ Resubscribe(x) \/ RecvTick(x) \/ RecvEnd(x) \/ FallbackSnapshot(x)
    \/ PollQuote(x) \/ PollSleep(x)

NextWS ==
    \/ StartStream
    \/ \E x \in Workers : WorkerStep(x)
    \/ Subscribe
    \/ Unsubscribe

SpecWS == Init /\ [][NextWS]_vars

(***************************************************************************)
(* StateManager on its own: a caller saves records and loads them, the     *)
(* process can be killed during a save, and the file can be damaged from   *)
(* outside.                                                                *)
(***************************************************************************)
TwoLegState ==
    [active_trade_id |-> 1,
     active_legs |-> [r \in RoleSet |->
                        IF r = "CALL_SHORT" THEN Leg(12, "CE") ELSE Leg(8, "PE")],
     adjustment_count |-> 0, is_adjusting |-> FALSE]

SavedRecords == {EmptyDict, TwoLegState,
                 [TwoLegState EXCEPT !["adjustment_count"] = 1,
                                     !["is_adjusting"] = TRUE]}

nonStoreVars == <<up, restarts, clock, state, live_prices, queue, subs,
                  connected, fallback, broker, next_id, pc, loc, ticks,
                  max_adjustments, ws, tg, cb, fn, ca, ru, sh>>

\* faulty variant: a failed write is reported as a success
save_result_true(ok) == "true"

\* what save_state returns: True, or False from the except clause
save_result(ok) == IF ok THEN "true" ELSE "false"

\* save_state: open(state_file, 'w') truncates the file, or fails (IOError:
\* save_state returns False)
SmSaveOpen ==
    /\ sm.pc = "idle"
    /\ \E rec \in SavedRecords, ok \in BOOLEAN :
         IF ok
         THEN /\ store' = Partial
              /\ sm' = [sm EXCEPT !.pc = "dump", !.data = rec, !.prev = store,
                                  !.saved = "none", !.last = "save"]
         ELSE /\ store' = store
              /\ sm' = [sm EXCEPT !.saved = save_result(ok), !.last = "save"]
    /\ UNCHANGED nonStoreVars

\* json.dump and the close of the file: the text is written, or the write
\* fails part-way (IOError: save_state returns False)
SmSaveDump ==
    /\ sm.pc = "dump"
    /\ \E ok \in BOOLEAN :
         /\ store' = IF ok THEN save_state(sm.data) ELSE Partial
         /\ sm' = [sm EXCEPT !.pc = "idle", !.saved = save_result(ok),
                             !.last = "save"]
    /\ UNCHANGED nonStoreVars

\* the process is killed between the open and the end of the write; a new
\* process takes over
SmCrash ==
    /\ sm.pc = "dump"
    /\ sm' = [sm EXCEPT !.pc = "idle", !.saved = "killed", !.last = "kill"]
    /\ UNCHANGED <<store, nonStoreVars>>

\* load_state, by this process or by another one reading the same file
SmLoad ==
    /\ sm' = [sm EXCEPT !.outcome = load_outcome(store),
                        !.loaded = load_state(store), !.last = "load"]
    /\ UNCHANGED <<store, nonStoreVars>>

\* the file is damaged, or removed, while nobody writes it
SmDamage ==
    /\ sm.pc = "idle"
    /\ \E f \in DamagedFiles \cup {NoFile} :
         /\ store # f
         /\ store' = f
    /\ sm' = [sm EXCEPT !.last = "damage"]
    /\ UNCHANGED nonStoreVars

NextStore == SmSaveOpen \/ SmSaveDump \/ SmCrash \/ SmLoad \/ SmDamage

SpecStore == Init /\ [][NextStore]_vars

(***************************************************************************)
(* The trigger branch of monitor_and_adjust, statement by statement, with  *)
(* save_state as StateManager has it: a failed write returns False, and    *)
(* the callers do not read what it returns.                                *)
(***************************************************************************)
\* save_state(...) called with record rec on file f: what the file holds
\* and what the call returns
write_state(f, rec, ok) == IF ok THEN rec ELSE f
write_result(ok) == IF ok THEN "True" ELSE "False"

TgStep(l) ==
    /\ tg' = l
    /\ UNCHANGED <<stratVars, ws, sm, cb, fn, ca, ru, sh>>

\* the guards and the condition: a tick with prices that meet the condition
\* while self.state['is_adjusting'] is false
TgCondition ==
    /\ tg.pc = "idle"
    /\ ~tg.state.is_adjusting
    /\ \E ce \in Prices, pe \in Prices :
         /\ condition_met(smaller_price(ce, pe), larger_price(ce, pe))
         /\ TgStep([tg EXCEPT
                !.pc = IF may_adjust(tg.state.adjustment_count, max_adjustments)
                       THEN "set_flag" ELSE "exit",
                !.args = [smaller_leg |-> smaller_leg(ce, pe),
                          larger_price |-> larger_price(ce, pe)]])

\* self.state['is_adjusting'] = True
TgSetFlag ==
    /\ tg.pc = "set_flag"
    /\ TgStep([tg EXCEPT !.pc = "increment", !.state.is_adjusting = TRUE])

\* self.state['adjustment_count'] += 1
TgIncrement ==
    /\ tg.pc = "increment"
    /\ TgStep([tg EXCEPT !.pc = "save",
                         !.state.adjustment_count = @ + 1])

\* self.state_manager.save_state(...), its result dropped
TgSave ==
    /\ tg.pc = "save"
    /\ \E ok \in BOOLEAN :
         TgStep([tg EXCEPT !.pc = "start",
                           !.file = write_state(tg.file, tg.state, ok),
                           !.saved = write_result(ok)])

\* adj_thread = threading.Thread(...); adj_thread.start()
TgStartThread ==
    /\ tg.pc = "start"
    /\ TgStep([tg EXCEPT !.pc = "idle", !.running = @ + 1])

\* end of _perform_adjustment: self.state['is_adjusting'] = False
TgReset ==
    /\ tg.running > 0
    /\ TgStep([tg EXCEPT !.running = @ - 1, !.saving = @ + 1,
                         !.state.is_adjusting = FALSE])

\* and its last statement, save_state(...)
TgFinalSave ==
    /\ tg.saving > 0
    /\ \E ok \in BOOLEAN :
         TgStep([tg EXCEPT !.saving = @ - 1,
                           !.file = write_state(tg.file, tg.state, ok),
                           !.saved = write_result(ok)])

NextTrigger ==
    \/ TgCondition \/ TgSetFlag \/ TgIncrement \/ TgSave
    \/ TgStartThread \/ TgReset \/ TgFinalSave

SpecTrigger == Init /\ [][NextTrigger]_vars

(***************************************************************************)
(* _on_tick on the two kinds of dict it is handed: the message of the      *)
(* streaming client, with the price under data['data']['ltp'], and the     *)
(* dict _fallback_poll_loop builds from a quote, with the price under      *)
(* data['ltp'].                                                            *)
(***************************************************************************)
NoLtp == 0 - 1
LegTicks == {Symbol(atm_strike(spot) + strike_diff, "CE") : spot \in EntrySpots}
            \cup {Symbol(atm_strike(spot) - strike_diff, "PE") : spot \in EntrySpots}

StreamData(symbol, ltp) == [symbol |-> symbol, data |-> [ltp |-> ltp]]
PollData(symbol, ltp) == [symbol |-> symbol, ltp |-> ltp]

\* data.get('data', {}).get('ltp')
tick_ltp(data) ==
    IF "data" \in DOMAIN data
    THEN IF "ltp" \in DOMAIN data["data"] THEN data["data"]["ltp"] ELSE NoLtp
    ELSE NoLtp

\* if symbol and ltp is not None
tick_accepted(data) == "symbol" \in DOMAIN data /\ tick_ltp(data) # NoLtp

\* the body of _on_tick
OnTick(data, via, symbol, ltp) ==
    /\ cb' = [cb EXCEPT
                !.handled = @ + 1,
                !.via = via, !.symbol = symbol, !.ltp = ltp,
                !.live_prices = IF tick_accepted(data)
                                THEN Put(cb.live_prices, data["symbol"], tick_ltp(data))
                                ELSE @,
                !.monitored = tick_accepted(data) /\ ~cb.is_adjusting]
    /\ UNCHANGED <<stratVars, ws, sm, tg, fn, ca, ru, sh>>

\* a message of the streaming client
CbStream ==
    /\ cb.handled < MaxCallbacks
    /\ \E symbol \in LegTicks, ltp \in Prices :
         OnTick(StreamData(symbol, ltp), "stream", symbol, ltp)

\* _fallback_poll_loop: a successful quote of a leg symbol
CbPoll ==
    /\ cb.handled < MaxCallbacks
    /\ \E symbol \in LegTicks, ltp \in Prices :
         OnTick(PollData(symbol, ltp), "poll", symbol, ltp)

\* an adjustment begins or ends
CbAdjusting ==
    /\ cb' = [cb EXCEPT !.is_adjusting = ~@]
    /\ UNCHANGED <<stratVars, ws, sm, tg, fn, ca, ru, sh>>

NextTick == CbStream \/ CbPoll \/ CbAdjusting

SpecTick == Init /\ [][NextTick]_vars

(***************************************************************************)
(* The strike rounding of execute_entry and _find_new_leg, and the search  *)
(* of _find_new_leg, as functions of their inputs.                         *)
(***************************************************************************)
FnStep(r) ==
    /\ fn' = r
    /\ UNCHANGED <<stratVars, ws, sm, tg, cb, ca, ru, sh>>

\* int(round(spot_price / strike_interval) * strike_interval)
RoundCall ==
    /\ fn.op = "none"
    /\ \E spot \in 0 .. MaxSpot, interval \in 1 .. MaxInterval :
         FnStep([FnInit EXCEPT !.op = "round", !.spot = spot,
                               !.interval = interval,
                               !.atm = PyRound(spot, interval) * interval])

\* _find_new_leg(option_type, target_premium, strike_to_exclude) with the
\* spot quote and the candidates' quotes it receives
FindCall ==
    /\ fn.op = "none"
    /\ \E spot \in AdjSpots, exclude \in Strikes, target \in Prices :
         LET atm == atm_strike(spot)
             cands == Candidates(atm, exclude)
         IN  \E q \in [SeqToSet(cands) -> Prices \cup {NoQuote}] :
               FnStep([op |-> "find", spot |-> spot,
                       interval |-> strike_interval, atm |-> atm,
                       exclude |-> exclude, cands |-> cands, q |-> q,
                       target |-> target,
                       result |-> best_leg(cands, q, target)])

NextFind == RoundCall \/ FindCall

SpecFind == Init /\ [][NextFind]_vars

(***************************************************************************)
(* The price cache over a run: _on_tick writes it, monitor_and_adjust      *)
(* reads the prices of the two legs from it, _perform_adjustment replaces  *)
(* a leg, and nothing removes an entry.                                    *)
(***************************************************************************)
caFrame == <<stratVars, ws, sm, tg, cb, fn, ru, sh>>

\* _on_tick for a leg symbol: the cache is written; unless an adjustment
\* runs, monitor_and_adjust reads both leg prices, and on the condition
\* and below the maximum sets the flag and starts the adjustment
CaTick ==
    /\ \E role \in RoleSet, ltp \in Prices :
         LET sym == ca.legs[role].symbol
             c == [ca EXCEPT !.live_prices = Put(ca.live_prices, sym, ltp),
                             !.recent = @ \cup {sym}]
             ce == c.live_prices[c.legs["CALL_SHORT"].symbol]
             pe == c.live_prices[c.legs["PUT_SHORT"].symbol]
             ready == \A r \in RoleSet : Has(c.live_prices, c.legs[r].symbol)
             met == condition_met(smaller_price(ce, pe), larger_price(ce, pe))
             start == met /\ may_adjust(c.adjustment_count, max_adjustments)
         IN  ca' = IF c.is_adjusting \/ ~c.open \/ ~ready
                   THEN c
                   ELSE [c EXCEPT
                           !.evaluated = IF \A r \in RoleSet :
                                               c.legs[r].symbol \in c.recent
                                         THEN "recent" ELSE "stale",
                           !.is_adjusting = start,
                           !.adjustment_count = IF start THEN @ + 1 ELSE @,
                           !.losing = IF start THEN smaller_leg(ce, pe) ELSE @,
                           !.open = ~met \/ start]
    /\ UNCHANGED caFrame

\* _perform_adjustment with every order filled: the losing leg is closed
\* and the leg _find_new_leg returns, any of the candidates, is sold; an
\* inverted strangle is closed and the flag is left set
CaAdjust ==
    /\ ca.is_adjusting /\ ca.open
    /\ \E spot \in AdjSpots :
         \E new \in SeqToSet(Candidates(atm_strike(spot), ca.legs[ca.losing].strike)) :
            ca' = IF Inverted(ca.losing, ca.legs[OtherRole(ca.losing)].strike, new)
                  THEN [ca EXCEPT !.open = FALSE]
                  ELSE [ca EXCEPT
                          !.legs[ca.losing] = Leg(new, OptType(ca.losing)),
                          !.recent = @ \ {Symbol(new, OptType(ca.losing))},
                          !.is_adjusting = FALSE]
    /\ UNCHANGED caFrame

NextCache == CaTick \/ CaAdjust

SpecCache == Init /\ [][NextCache]_vars

(***************************************************************************)
(* The decision rule of monitor_and_adjust, in the earlier single-file     *)
(* strategy (option_strategy/strangle.py) and in the current one, as       *)
(* functions of the two leg prices and of threshold_ratio = num / den.     *)
(***************************************************************************)
Ratios == {<<1, 4>>, <<1, 2>>, <<3, 5>>, <<9, 10>>}

\* if ce_price < pe_price * threshold: 'CE', pe_price
\* elif pe_price < ce_price * threshold: 'PE', ce_price
legacy_rule(ce, pe, num, den) ==
    IF ce * den < pe * num THEN [leg |-> "CE", target |-> pe]
    ELSE IF pe * den < ce * num THEN [leg |-> "PE", target |-> ce]
    ELSE [leg |-> "none", target |-> 0]

\* faulty variant: the target premium is the losing leg's own price
current_rule_own_price(ce, pe, num, den) ==
    IF smaller_price(ce, pe) * den < larger_price(ce, pe) * num
    THEN [leg |-> smaller_leg(ce, pe), target |-> smaller_price(ce, pe)]
    ELSE [leg |-> "none", target |-> 0]

\* smaller_price < larger_price * threshold: the thread's arguments are
\* (smaller_leg, larger_price)
current_rule(ce, pe, num, den) ==
    IF smaller_price(ce, pe) * den < larger_price(ce, pe) * num
    THEN [leg |-> smaller_leg(ce, pe), target |-> larger_price(ce, pe)]
    ELSE [leg |-> "none", target |-> 0]

\* both rules applied to the same prices and ratio
RuleCall ==
    /\ ru.op = "none"
    /\ \E ce \in 0 .. MaxPrice, pe \in 0 .. MaxPrice, ratio \in Ratios :
         ru' = [op |-> "decide", ce |-> ce, pe |-> pe,
                num |-> ratio[1], den |-> ratio[2],
                legacy |-> legacy_rule(ce, pe, ratio[1], ratio[2]),
                current |-> current_rule(ce, pe, ratio[1], ratio[2])]
    /\ UNCHANGED <<stratVars, ws, sm, tg, cb, fn, ca, sh>>

SpecRule == Init /\ [][RuleCall]_vars

(***************************************************************************)
(* The strategy process under Ctrl+C: graceful_shutdown calls shutdown()   *)
(* and sys.exit(0) on the main thread, wherever run() is; the next start   *)
(* loads the state file.  Inside the trading window.                       *)
(***************************************************************************)
shFrame == <<stratVars, ws, sm, tg, cb, fn, ca, ru>>

\* __init__ and the start-up part of run(): load_state, a fresh state
\* without a trade id, else the flag reset and _start_monitoring if the
\* record has legs
ShStart ==
    /\ ~sh.up /\ sh.starts < MaxStarts
    /\ \E ok \in BOOLEAN :
         LET loaded == load_state(sh.store)
             st == IF TradeId(loaded) = 0 THEN FreshState
                   ELSE IF IsAdjusting(loaded) THEN startup_state(loaded)
                   ELSE loaded
             monitor == TradeId(loaded) # 0 /\ HasLegs(loaded) /\ ok
         IN  sh' = [sh EXCEPT
                      !.up = TRUE, !.pc = "rest", !.starts = @ + 1,
                      !.state = st,
                      !.store = IF TradeId(loaded) # 0 /\ IsAdjusting(loaded)
                                THEN save_state(st) ELSE @,
                      !.connected = monitor,
                      !.subs = IF monitor
                               THEN LegSymbols(loaded) \cup {IndexSymbol} ELSE {},
                      !.stop = "none"]
    /\ UNCHANGED shFrame

\* execute_entry up to the orders: the two lookups, the trade id, the count
ShEntryBegin ==
    /\ sh.up /\ sh.pc = "rest"
    /\ needs_entry(sh.state)
    /\ sh.next_id <= MaxTrades
    /\ \E expiry_ok \in BOOLEAN, quote_ok \in BOOLEAN :
         sh' = [sh EXCEPT
                  !.state = entry_state(sh.state, expiry_ok, quote_ok, sh.next_id),
                  !.next_id = IF expiry_ok /\ quote_ok THEN @ + 1 ELSE @,
                  !.pc = IF expiry_ok /\ quote_ok THEN "entry_ce" ELSE "rest"]
    /\ UNCHANGED shFrame

\* the two _place_leg_order calls of execute_entry, one per step
ShEntryOrder ==
    /\ sh.up /\ sh.pc \in {"entry_ce", "entry_pe"}
    /\ \E ok \in BOOLEAN, spot \in EntrySpots :
         LET role == IF sh.pc = "entry_ce" THEN "CALL_SHORT" ELSE "PUT_SHORT"
             leg == Leg(IF role = "CALL_SHORT" THEN atm_strike(spot) + strike_diff
                                               ELSE atm_strike(spot) - strike_diff,
                        OptType(role))
         IN  sh' = [sh EXCEPT
                      !.broker = OrderBroker(sh.broker, leg.symbol, "SELL", ok),
                      !.state = OrderState(sh.state, role, leg, "SELL", ok),
                      !.pc = IF sh.pc = "entry_ce" THEN "entry_pe" ELSE "entry_save"]
    /\ UNCHANGED shFrame

\* save_state at the end of execute_entry, then _start_monitoring if the
\* state has legs
ShEntrySave ==
    /\ sh.up /\ sh.pc = "entry_save"
    /\ \E ok \in BOOLEAN :
         sh' = [sh EXCEPT
                  !.store = save_state(sh.state),
                  !.connected = HasLegs(sh.state) /\ ok,
                  !.subs = IF HasLegs(sh.state) /\ ok
                           THEN LegSymbols(sh.state) \cup {IndexSymbol} ELSE @,
                  !.pc = "rest"]
    /\ UNCHANGED shFrame

\* graceful_shutdown, first part: strategy.shutdown() unsubscribes the legs
\* and the index and disconnects
ShShutdown ==
    /\ sh.up /\ sh.pc # "sigint"
    /\ sh' = [sh EXCEPT
                !.subs = @ \ (LegSymbols(sh.state) \cup {IndexSymbol}),
                !.connected = FALSE,
                !.pc = "sigint"]
    /\ UNCHANGED shFrame

\* graceful_shutdown, second part: sys.exit(0); the state in memory is gone
ShSysExit ==
    /\ sh.up /\ sh.pc = "sigint"
    /\ sh' = [sh EXCEPT
                !.up = FALSE, !.pc = "off", !.state = EmptyDict,
                !.subs = {}, !.stop = "manual", !.before = sh.state]
    /\ UNCHANGED shFrame

NextShutdown ==
    \/ ShStart \/ ShEntryBegin \/ ShEntryOrder \/ ShEntrySave
    \/ ShShutdown \/ ShSysExit

SpecShutdown == Init /\ [][NextShutdown]_vars

(***************************************************************************)
(* Observations used by the properties.                                    *)
(***************************************************************************)
ExitLabels == {"exit_shutdown", "exit_list", "exit_leg", "exit_clear", "exit_save"}
RestLabels == {"start", "start_monitor", "loop_queue", "loop_time", "wait_start"}

\* no entry, adjustment or exit procedure is in progress
AtRest ==
    /\ up
    /\ pc["main"] \in RestLabels
    /\ pc["tick"] \in {"idle", "monitor"}
    /\ Running = {}

LegCount(d) == Cardinality(DOMAIN LegsOf(d))

\* the step in which monitor_and_adjust runs
MonitorStep == up /\ up' /\ pc["tick"] = "monitor" /\ pc'["tick"] # "monitor"

\* the step in which monitor_and_adjust starts an adjustment thread
SpawnStep == MonitorStep /\ Running' # Running
Spawned == CHOOSE a \in Running' \ Running : TRUE

CondNow == condition_met(smaller_price(ce_price, pe_price),
                         larger_price(ce_price, pe_price))

\* the steps that write the state file
SaveByThread ==
    \E t \in Threads : /\ pc[t] \in {"entry_save", "exit_save", "adj_save"}
                       /\ pc'[t] # pc[t]
RunSave == pc["main"] = "start" /\ pc'["main"] # "start"
           /\ TradeId(state) # 0 /\ IsAdjusting(state)
SaveStep == up /\ up' /\ (SaveByThread \/ RunSave \/ SpawnStep)

CallNotBelowPut(d) ==
    DOMAIN LegsOf(d) = RoleSet =>
        LegsOf(d)["CALL_SHORT"].strike >= LegsOf(d)["PUT_SHORT"].strike

OpenAtBroker == {sym \in OptionSymbols : broker[sym] > 0}

(***************************************************************************)
(* C1: at most one adjustment procedure (_perform_adjustment) is running   *)
(* at any time.                                                            *)
(***************************************************************************)
C1_SingleFlight == Cardinality(Running) <= 1

(***************************************************************************)
(* C2: whenever no adjustment procedure is running (each one started has   *)
(* ended, by whatever path), is_adjusting is false in memory.              *)
(***************************************************************************)
C2_FlagClearedWhenNoneRuns ==
    (up /\ pc["main"] # "start" /\ Running = {}) => ~IsAdjusting(state)

(***************************************************************************)
(* C3: started with a persisted trade id, two legs and is_adjusting =      *)
(* true, run() clears the flag, persists that, goes on to start            *)
(* monitoring, places no order; and execute_entry is only ever entered     *)
(* with no trade id in the state.                                          *)
(***************************************************************************)
ResumeStep ==
    /\ up /\ up'
    /\ pc["main"] = "start" /\ pc'["main"] # "start"
    /\ TradeId(state) # 0
    /\ LegCount(state) = 2
    /\ IsAdjusting(state)

C4_RecordMatchesBroker ==
    (up /\ restarts > 0 /\ pc["main"] = "start")
        => LegSymbols(load_state(store)) = OpenAtBroker

(***************************************************************************)
(* C5: at rest the legs map has 0 or 2 entries, in memory and in the       *)
(* state file.                                                             *)
(***************************************************************************)
C5_ZeroOrTwoLegs ==
    AtRest => /\ LegCount(state) \in {0, 2}
              /\ LegCount(load_state(store)) \in {0, 2}

(***************************************************************************)
(* C6: at rest a two-leg state has call strike >= put strike; no SELL is   *)
(* placed for a replacement that would invert the strangle, and the exit   *)
(* an adjustment thread runs instead leaves no legs.                       *)
(***************************************************************************)
C6_NeverInverted ==
    /\ AtRest => (CallNotBelowPut(state) /\ CallNotBelowPut(load_state(store)))
    /\ \A a \in AdjThreads :
          /\ (pc[a] = "adj_sell" /\ loc[a].role = "CALL_SHORT")
                => loc[a].new >= loc[a].rem
          /\ (pc[a] = "adj_sell" /\ loc[a].role = "PUT_SHORT")
                => loc[a].new <= loc[a].rem
          /\ pc[a] = "exit_save" => LegCount(state) = 0

C6_Witness ==
    \E a \in AdjThreads :
       /\ pc[a] = "exit_save"
       /\ loc[a].ret = "idle"
       /\ loc[a].role = "CALL_SHORT"
       /\ loc[a].rem = 8

(***************************************************************************)
(* C7 as claimed: once adjustment_count has reached the maximum, every     *)
(* qualifying tick starts the exit, whatever the prices.                   *)
(***************************************************************************)
AtMaximum == Qualifies /\ Has(state, "adjustment_count")
             /\ state["adjustment_count"] >= max_adjustments

TriggerExpected ==
    LET smaller == IF ce_price < pe_price THEN ce_price ELSE pe_price
        larger == IF ce_price < pe_price THEN pe_price ELSE ce_price
    IN  smaller * threshold_den < larger * threshold_num

BelowMaximum == Has(state, "adjustment_count")
                /\ state["adjustment_count"] < max_adjustments

C8_TriggerRule ==
    [][(MonitorStep /\ Qualifies) =>
          /\ BelowMaximum => (SpawnStep <=> TriggerExpected)
          /\ ~TriggerExpected
                => (~SpawnStep /\ pc'["tick"] = "idle" /\ state' = state)
          /\ SpawnStep =>
                /\ loc'[Spawned].role = (IF ce_price < pe_price
                                         THEN "CALL_SHORT" ELSE "PUT_SHORT")
                /\ loc'[Spawned].target = (IF ce_price < pe_price
                                           THEN pe_price ELSE ce_price)
                /\ (IF ce_price < pe_price THEN ce_price ELSE pe_price)
                      * threshold_den < loc'[Spawned].target * threshold_num]_vars

C8_Witness ==
    \E a \in AdjThreads :
       /\ pc[a] = "adj_close"
       /\ loc[a].role = "CALL_SHORT"
       /\ loc[a].target = 100
       /\ Has(state, "active_legs") /\ Has(state["active_legs"], "CALL_SHORT")
       /\ Has(live_prices, state["active_legs"]["CALL_SHORT"].symbol)
       /\ live_prices[state["active_legs"]["CALL_SHORT"].symbol] = 40

C10_FallbackAfterMaxFailures ==
    \A x \in Workers :
       ws.w[x].fails >= websocket_max_retries
           => (ws.w[x].pc \in FallbackLabels
               \/ (ws.w[x].pc = "loop" /\ ws.w[x].retries = 0))

(***************************************************************************)
(* C11: however often start_stream is called, there is exactly one worker: *)
(* the first one; a later call starts no second worker and leaves the      *)
(* stored thread and the stored connection handle those of the first.      *)
(***************************************************************************)
ActiveWorkers == {x \in Workers : ws.w[x].pc # "off"}

C11_SecondStartIsNoOp ==
    ws.started >= 1 => /\ ActiveWorkers = {1}
                       /\ ws.main_loop_task = 1
                       /\ ws.websocket \in {0, 1}

(***************************************************************************)
(* C12: when the main loop applies a subscription change taken from the    *)
(* queue, the adjustment thread that produced it has ended: it is not      *)
(* still before its is_adjusting reset or its final save.                  *)
(***************************************************************************)
ApplyStep ==
    /\ up /\ up'
    /\ pc["main"] = "loop_queue" /\ pc'["main"] # "loop_queue"
    /\ queue # <<>>

Produced(a) ==
    [old_symbol |-> loc[a].old.symbol,
     new_symbol |-> Symbol(loc[a].new, OptType(loc[a].role))]

Unfinished(a) == pc[a] \in {"adj_reset", "adj_save"}

C12_AppliedAfterFinalSave ==
    [][ApplyStep => \A a \in AdjThreads :
                       ~(Unfinished(a) /\ Produced(a) = Head(queue))]_vars

(***************************************************************************)
(* C13: while a trade is open and the stream is connected and subscribed,  *)
(* with no entry, adjustment or exit in progress and nothing on the queue,  *)
(* the subscribed symbols are the index symbol and the symbols of the      *)
(* current legs.                                                           *)
(***************************************************************************)
Monitoring ==
    /\ up /\ connected
    /\ TradeId(state) # 0 /\ HasLegs(state)
    /\ pc["main"] \in {"loop_queue", "loop_time", "wait_start"}
    /\ pc["tick"] \in {"idle", "monitor"}
    /\ Running = {}
    /\ queue = <<>>

C13_SubscriptionsMatchLegs ==
    Monitoring => subs = {IndexSymbol} \cup LegSymbols(state)

(***************************************************************************)
(* C14: load_state never raises and returns a dict; when there is no file, *)
(* or the file holds no complete record, the dict is empty; the file is    *)
(* left as it was.                                                         *)
(***************************************************************************)
LoadStep == sm'.last = "load" /\ sm.last # "load"

C14_LoadNeverFails ==
    [][LoadStep => /\ sm'.outcome = "dict"
                   /\ store.kind # "ok" => sm'.loaded = EmptyDict
                   /\ store' = store]_vars

(***************************************************************************)
(* C15: a load_state during a save_state, or after the process was killed  *)
(* during one, returns the complete record the file held before the save   *)
(* or the complete record being saved.                                     *)
(***************************************************************************)
DuringOrAfterKilledSave == sm.pc = "dump" \/ sm.last = "kill"

C15_SaveIsAtomic ==
    [][(LoadStep /\ DuringOrAfterKilledSave /\ sm.prev.kind = "ok") =>
          /\ sm'.outcome = "dict"
          /\ sm'.loaded \in {load_state(sm.prev), sm.data}]_vars

(***************************************************************************)
(* C16: in an execute_exit run while no other adjustment is in flight,     *)
(* every leg it takes out of the legs map has had its buy order placed,    *)
(* and when it completes the stream is disconnected and the state, in      *)
(* memory and in the file, is empty: no trade id, no legs, no count.       *)
(***************************************************************************)
ExitPop(t) ==
    /\ up /\ up'
    /\ pc[t] = "exit_leg"
    /\ LegCount(state') < LegCount(state)

ExitDone(t) ==
    /\ up /\ up'
    /\ pc[t] = "exit_save" /\ pc'[t] # "exit_save"

C16_ExitClosesEverything ==
    [][\A t \in Threads :
          Running \ {t} = {} =>
             /\ ExitPop(t) => broker' # broker
             /\ ExitDone(t) => /\ state' = EmptyDict
                               /\ store' = save_state(EmptyDict)
                               /\ ~connected']_vars

(***************************************************************************)
(* C17: when execute_entry returns at a failed expiry or spot-quote        *)
(* lookup, the state in memory, the state file and the broker's positions  *)
(* are what they were before, no trade id has been drawn, and the main     *)
(* loop will call execute_entry again exactly when it would have before.   *)
(***************************************************************************)
EntryAbort ==
    /\ up /\ up'
    /\ pc["main"] = "entry_lookup" /\ pc'["main"] = "entry_after"

C17_AbortedEntryChangesNothing ==
    [][EntryAbort => /\ state' = state
                     /\ store' = store
                     /\ broker' = broker
                     /\ next_id' = next_id
                     /\ needs_entry(state') = needs_entry(state)]_vars

C17_AbortedFirstEntry ==
    /\ up /\ pc["main"] = "entry_after"
    /\ next_id = 1 /\ TradeId(state) = 0 /\ ~HasLegs(state)
    /\ \A k \in DOMAIN broker : broker[k] = 0

(***************************************************************************)
(* C18: in a run of the process without a restart, every entry sell order  *)
(* that reaches the broker belongs to the first trade of the trading       *)
(* window: once that trade has been closed, no entry order is placed.      *)
(***************************************************************************)
EntrySell ==
    /\ up /\ up'
    /\ pc["main"] \in {"entry_ce", "entry_pe"}
    /\ pc'["main"] # pc["main"]
    /\ broker' # broker

TradesStarted == next_id - 1

C18_OneTradePerWindow ==
    [][(EntrySell /\ restarts = 0 /\ clock = "in") => TradesStarted <= 1]_vars

(***************************************************************************)
(* C19: a worker that has entered _fallback_poll stays in it: none of its  *)
(* later steps is a step of the connection loop.                           *)
(***************************************************************************)
C19_FallbackIsPermanent ==
    [][\A x \in Workers :
          ws.w[x].pc \in FallbackLabels => ws'.w[x].pc \in FallbackLabels]_vars

C19_PolledARound ==
    /\ ws.started = 1
    /\ ws.w[1].pc = "fallback"
    /\ ws.last_tick.via = "poll"

(***************************************************************************)
(* C20: when monitor_and_adjust starts the adjustment thread, the flag     *)
(* is_adjusting is true in memory and in the state file, and the file      *)
(* holds the incremented adjustment_count: the adjustment never begins     *)
(* over a record that still says is_adjusting = false.                     *)
(***************************************************************************)
TgStartStep == tg.pc = "start" /\ tg'.pc # "start"

C20_PersistedBeforeThreadStart ==
    [][TgStartStep => /\ tg.state.is_adjusting
                      /\ tg.file.is_adjusting
                      /\ tg.file.adjustment_count = tg.state.adjustment_count]_vars

(***************************************************************************)
(* C21: a tick starts an adjustment thread or the max-adjustments exit     *)
(* only when the time is inside the trading window, is_adjusting is false, *)
(* a trade id is set, the legs are exactly CALL_SHORT and PUT_SHORT and    *)
(* both leg symbols have a price in the cache; every other tick changes    *)
(* the price cache and nothing else.                                       *)
(***************************************************************************)
TickRecvStep == up /\ up' /\ ticks' # ticks
TickStarts == MonitorStep /\ (SpawnStep \/ pc'["tick"] = "exit_shutdown")

GuardsHold ==
    /\ clock = "in"
    /\ ~IsAdjusting(state)
    /\ TradeId(state) # 0
    /\ DOMAIN LegsOf(state) = RoleSet
    /\ \A r \in RoleSet : Has(live_prices, LegsOf(state)[r].symbol)

C21_TickActsOnlyUnderGuards ==
    [][/\ TickStarts => GuardsHold
       /\ (TickRecvStep \/ (MonitorStep /\ ~TickStarts))
             => UNCHANGED <<state, store, broker, queue, subs, connected,
                            fallback, next_id, clock>>
       /\ MonitorStep => live_prices' = live_prices]_vars

C21_TickStartedAdjustment ==
    /\ up /\ clock = "in"
    /\ pc["tick"] = "idle" /\ pc["adj1"] = "adj_close"
    /\ IsAdjusting(state)

(***************************************************************************)
(* C22: adjustment_count, in memory and in the state file, is never above  *)
(* max_adjustments; execute_entry sets it to 0, a triggered adjustment     *)
(* adds exactly 1, and while the process runs and the trade id stays the   *)
(* same the count does not go down.                                        *)
(***************************************************************************)
Count(d) == IF Has(d, "adjustment_count") THEN d["adjustment_count"] ELSE 0

EntryStarts ==
    /\ up /\ up'
    /\ pc["main"] = "entry_lookup" /\ pc'["main"] = "entry_ce"

C22_CountBoundedAndMonotonic ==
    /\ [](Count(state) <= max_adjustments
            /\ Count(load_state(store)) <= max_adjustments)
    /\ [][/\ EntryStarts => (Has(state', "adjustment_count") /\ Count(state') = 0)
          /\ SpawnStep => Count(state') = Count(state) + 1
          /\ (up /\ up' /\ TradeId(state) # 0 /\ TradeId(state') = TradeId(state))
                => Count(state') >= Count(state)]_vars

C22_CountAtMaximum ==
    /\ up /\ TradeId(state) # 0
    /\ Running # {}
    /\ Count(state) = max_adjustments
    /\ max_adjustments > 1

(***************************************************************************)
(* C23: an adjustment thread that has called execute_exit on a decision    *)
(* error (remaining leg missing, no candidate quote, inverted strikes)     *)
(* buys back every leg it takes out of the legs map, goes on to no         *)
(* replacement order and no new search, and leaves, when execute_exit      *)
(* returns, a state with no trade id and no legs in memory and in the      *)
(* state file.                                                             *)
(***************************************************************************)
AfterForcedExit == ExitLabels \cup {"adj_reset", "adj_save", "idle"}

C23_DecisionErrorEndsInFullExit ==
    [][\A a \in AdjThreads :
          /\ ExitPop(a) => broker' # broker
          /\ (up /\ up' /\ pc[a] \in ExitLabels) => pc'[a] \in AfterForcedExit
          /\ ExitDone(a) => /\ TradeId(state') = 0
                            /\ LegCount(state') = 0
                            /\ TradeId(load_state(store')) = 0
                            /\ LegCount(load_state(store')) = 0]_vars

(***************************************************************************)
(* C24: a tick built from a successful fallback quote is handled like a    *)
(* stream tick of the same symbol and price: afterwards the price cache    *)
(* holds that price for the symbol, and monitor_and_adjust has been called *)
(* unless an adjustment is in progress.                                    *)
(***************************************************************************)
PollStep == cb'.handled # cb.handled /\ cb'.via = "poll"

C24_FallbackTickHandledLikeStreamTick ==
    [][PollStep =>
         /\ cb'.live_prices = Put(cb.live_prices, cb'.symbol, cb'.ltp)
         /\ cb'.monitored = ~cb.is_adjusting]_vars

(***************************************************************************)
(* C25: _find_new_leg returns a candidate with a quote whose premium is    *)
(* nearest to the target, the lowest strike among equally near ones, and   *)
(* returns none exactly when no candidate has a quote.                     *)
(***************************************************************************)
Quoted == {k \in SeqToSet(fn.cands) : fn.q[k] # NoQuote}
Distance(k) == Abs(fn.q[k] - fn.target)

C25_NearestPremiumLowestStrike ==
    fn.op = "find" =>
       /\ (fn.result = 0) <=> (Quoted = {})
       /\ Quoted # {} =>
            /\ fn.result \in Quoted
            /\ \A k \in Quoted :
                  /\ Distance(fn.result) <= Distance(k)
                  /\ Distance(fn.result) = Distance(k) => fn.result <= k

C25_TieBetweenCandidates ==
    /\ fn.op = "find"
    /\ \E k \in Quoted \ {fn.result} :
         /\ Distance(k) = Distance(fn.result)
         /\ fn.q[k] # fn.q[fn.result]

(***************************************************************************)
(* C26: the candidate strikes are atm + i * interval for every i from      *)
(* -radius to radius, ascending, without the strike just closed; the       *)
(* strike returned is not the strike just closed and is at most            *)
(* radius * interval away from atm.                                        *)
(***************************************************************************)
C26_CandidatesAroundAtm ==
    fn.op = "find" =>
       /\ SeqToSet(fn.cands) =
             {fn.atm + i * strike_interval : i \in (0 - radius) .. radius}
                \ {fn.exclude}
       /\ \A i \in 1 .. Len(fn.cands), j \in 1 .. Len(fn.cands) :
             i < j => fn.cands[i] < fn.cands[j]
       /\ fn.result # 0 =>
             /\ fn.result # fn.exclude
             /\ Abs(fn.result - fn.atm) <= radius * strike_interval

C26_ClosedStrikeInRange ==
    /\ fn.op = "find"
    /\ Abs(fn.exclude - fn.atm) <= radius * strike_interval
    /\ fn.q = [k \in SeqToSet(fn.cands) |-> fn.target]
    /\ fn.result # 0

(***************************************************************************)
(* C27: the at-the-money strike is a multiple of the interval, no other    *)
(* multiple is nearer to the spot price, and when the spot is halfway      *)
(* between two multiples the even multiple is taken.                       *)
(***************************************************************************)
Multiplier == fn.atm \div fn.interval
Halfway == 2 * Abs(fn.spot - fn.atm) = fn.interval

C27_RoundHalfToEven ==
    fn.op = "round" =>
       /\ fn.atm = Multiplier * fn.interval
       /\ \A m \in 0 .. (fn.spot + 1) :
             Abs(fn.spot - fn.atm) <= Abs(fn.spot - m * fn.interval)
       /\ Halfway => Multiplier % 2 = 0

C27_HalfwayRoundedUp ==
    /\ fn.op = "round"
    /\ Halfway
    /\ fn.atm > fn.spot

(***************************************************************************)
(* C28: a call of save_state whose write fails returns False and leaves    *)
(* the caller's record as it was; a call that returns True has left that   *)
(* record, as the caller holds it at the time, in the state file.          *)
(***************************************************************************)
SaveReturns == sm'.last = "save" /\ sm'.pc = "idle"
OpenFailed == SaveReturns /\ sm.pc = "idle"
DumpFailed == SaveReturns /\ sm.pc = "dump" /\ store'.kind # "ok"

C28_FailedSaveReportedAndRetried ==
    [][/\ (OpenFailed \/ DumpFailed) => /\ sm'.saved = "false"
                                        /\ sm'.data = sm.data
                                        /\ state' = state
       /\ (SaveReturns /\ sm'.saved = "true") => /\ load_outcome(store') = "dict"
                                                 /\ load_state(store') = sm.data
                                                 /\ sm'.data = sm.data]_vars

C28_SaveFailedOnExistingRecord ==
    /\ sm.last = "save" /\ sm.pc = "idle"
    /\ sm.saved = "false"
    /\ store.kind = "ok" /\ TradeId(store.rec) # 0

(***************************************************************************)
(* C29: the tick that starts an adjustment thread is done in the same      *)
(* step, with the thread still before its first order; a tick received     *)
(* while an adjustment procedure runs is written to the price cache; and   *)
(* no tick starts an adjustment thread while one is running.               *)
(***************************************************************************)
TickReturnsAtOnce ==
    SpawnStep => (pc'["tick"] = "idle" /\ pc'[Spawned] = "adj_close")

TickRecordedWhileAdjusting ==
    (TickRecvStep /\ Running # {})
        => \E sym \in subs : /\ Has(live_prices', sym)
                             /\ live_prices' = Put(live_prices, sym, live_prices'[sym])

C29_TicksDuringAdjustment ==
    [][/\ TickReturnsAtOnce
       /\ TickRecordedWhileAdjusting
       /\ SpawnStep => Running = {}]_vars

(***************************************************************************)
(* C30: whenever no entry, adjustment or exit is in progress, the state    *)
(* holds a trade id exactly when its legs map is not empty.                *)
(***************************************************************************)
C30_TradeIdIffLegs ==
    AtRest => ((TradeId(state) # 0) <=> HasLegs(state))

(***************************************************************************)
(* C31: whenever monitor_and_adjust evaluates the adjustment condition,    *)
(* the cached price of each leg was recorded after the leg at that symbol  *)
(* was opened.                                                             *)
(***************************************************************************)
C31_NoStalePriceEvaluated == ca.evaluated # "stale"

(***************************************************************************)
(* C32: when the end-of-window execute_exit of the main loop runs while an *)
(* adjustment thread is in flight, the thread fills no SELL order once the *)
(* exit has closed the legs, and when the last thread ends after the exit  *)
(* the state in memory is empty.                                           *)
(***************************************************************************)
MainExitClosed == pc["main"] \in {"exit_clear", "exit_save", "done"}

AdjSellFilled(a) ==
    /\ up /\ up'
    /\ pc[a] = "adj_sell" /\ pc'[a] # "adj_sell"
    /\ broker' # broker

AdjEndsLast(a) ==
    /\ up /\ up'
    /\ pc[a] # "idle" /\ pc'[a] = "idle"
    /\ Running' = {}

C32_ExitDuringAdjustment ==
    [][\A a \in AdjThreads :
          /\ AdjSellFilled(a) => ~MainExitClosed
          /\ (AdjEndsLast(a) /\ pc["main"] = "done") => state' = EmptyDict]_vars

(***************************************************************************)
(* C33: between order calls the legs map in memory holds exactly the       *)
(* symbols sold and not bought back at the broker, whichever requests      *)
(* fail.                                                                   *)
(***************************************************************************)
C33_LegsMapMatchesBroker ==
    (up /\ restarts = 0) => LegSymbols(state) = OpenAtBroker

(***************************************************************************)
(* C34: a worker's remaining retries are always between 0 and              *)
(* websocket_max_retries, and a worker enters the polling fallback only    *)
(* with no retries left, after websocket_max_retries failures since its    *)
(* stream was last established.                                            *)
(***************************************************************************)
EntersFallback(x) ==
    /\ ws.w[x].pc \notin FallbackLabels
    /\ ws'.w[x].pc \in FallbackLabels

C34_FallbackOnlyWhenExhausted ==
    /\ [](\A x \in Workers : ws.w[x].retries \in 0 .. websocket_max_retries)
    /\ [][\A x \in Workers :
             EntersFallback(x) => /\ ws.w[x].retries = 0
                                  /\ ws.w[x].fails >= websocket_max_retries]_vars

(***************************************************************************)
(* C35: is_connected is true only while a worker holds an open connection  *)
(* on which it has authenticated, and it is false whenever a worker is in  *)
(* the polling fallback.                                                   *)
(***************************************************************************)
Authenticated(x) == ws.w[x].pc \in {"resubscribe", "recv"}

C35_ConnectedMeansOpenStream ==
    /\ ws.is_connected => \E x \in Workers : Authenticated(x)
    /\ (\E x \in Workers : ws.w[x].pc \in FallbackLabels) => ~ws.is_connected

(***************************************************************************)
(* C36: when a worker has connected and authenticated, _resubscribe_all    *)
(* sends a subscribe request for every symbol tracked at that moment,      *)
(* which includes each symbol subscribed and none unsubscribed while the   *)
(* stream was down; subscribe and unsubscribe always update the tracked    *)
(* set, and a fallback cycle polls the symbols tracked when it starts.     *)
(***************************************************************************)
ResubscribeDone(x) == ws.w[x].pc = "resubscribe" /\ ws'.w[x].pc = "recv"

CycleStarts(x) == ws.w[x].pc = "fallback" /\ ws'.w[x].pc = "poll"

C36_ResubscribeTracksSet ==
    [][\A x \in Workers :
          /\ ResubscribeDone(x) => ws'.w[x].sent = ws.subscriptions
          /\ CycleStarts(x) => SeqToSet(ws'.w[x].pend) = ws.subscriptions]_vars

(***************************************************************************)
(* C37: a subscription change is put on the queue only together with a     *)
(* replacement leg recorded in the legs map, one message at the back, and  *)
(* the main loop takes one message at a time from the front and applies    *)
(* it.                                                                     *)
(***************************************************************************)
Enqueues == up /\ up' /\ Len(queue') > Len(queue)
Dequeues == up /\ up' /\ Len(queue') < Len(queue)

C37_QueueOnlyForRecordedLeg ==
    [][/\ Enqueues =>
             /\ Len(queue') = Len(queue) + 1
             /\ SubSeq(queue', 1, Len(queue)) = queue
             /\ queue'[Len(queue')].new_symbol \in LegSymbols(state')
       /\ Dequeues =>
             /\ queue' = Tail(queue)
             /\ Head(queue).new_symbol \in subs']_vars

(***************************************************************************)
(* C38: for leg prices ce, pe >= 0 and every ratio in (0,1) the earlier    *)
(* rule and the current rule decide alike: both choose no leg, or both     *)
(* choose the same losing leg with the same target premium.                *)
(***************************************************************************)
C38_RulesAgree ==
    ru.op = "decide" =>
        /\ (ru.legacy.leg = "none") <=> (ru.current.leg = "none")
        /\ ru.current.leg # "none" =>
               /\ OptType(ru.current.leg) = ru.legacy.leg
               /\ ru.current.target = ru.legacy.target

C38_Witness ==
    /\ ru.op = "decide"
    /\ ru.legacy.leg = "PE" /\ ru.current.leg = "PUT_SHORT"
    /\ ru.current.target = ru.ce /\ ru.ce > 0 /\ ru.pe > 0

(***************************************************************************)
(* C39: shutdown() called from the SIGINT handler places no order and      *)
(* leaves the state in memory and the state file as they are, and the      *)
(* next start resumes the legs the process held: it has the same legs map  *)
(* and, if there are legs, the same trade id and adjustment count.         *)
(***************************************************************************)
ShutdownStep == sh.up /\ sh.pc # "sigint" /\ sh'.pc = "sigint"

StartAfterManual == ~sh.up /\ sh'.up /\ sh.stop = "manual"

C39_ManualShutdownKeepsPosition ==
    [][/\ ShutdownStep =>
             /\ sh'.broker = sh.broker
             /\ sh'.state = sh.state
             /\ sh'.store = sh.store
       /\ StartAfterManual =>
             /\ LegsOf(sh'.state) = LegsOf(sh.before)
             /\ HasLegs(sh.before) =>
                    /\ TradeId(sh'.state) = TradeId(sh.before)
                    /\ Count(sh'.state) = Count(sh.before)]_vars

====
